---- MODULE Spec2Model ----
(***************************************************************************)
(* Orchestration layer of the GStreamer instant-replay program             *)
(* (src/main.cpp): main()'s startup and cleanup sequence, the signal       *)
(* handler, the bus watch (bus_callback) dispatched by the GLib main loop, *)
(* the pad-added callback of the RTSP source and the client sessions of    *)
(* the RTSP server.                                                        *)
(*                                                                         *)
(* Library behaviour the program relies on, modelled as the libraries      *)
(* implement it:                                                           *)
(*  - g_main_loop_new(NULL, FALSE) creates a loop with is_running = FALSE; *)
(*    g_main_loop_run sets is_running = TRUE and iterates the default      *)
(*    context while is_running holds; g_main_loop_quit clears is_running.  *)
(*  - a bus watch hands exactly one message to its callback per dispatch.  *)
(*  - sources of the default context (bus watch, RTSP listening socket)    *)
(*    are dispatched only from inside g_main_loop_run.                     *)
(***************************************************************************)
EXTENDS Integers, Sequences, FiniteSets, TLC

VARIABLES
    pc,                 \* position of main()
    exit_code,          \* return value of main(), NoExit while it runs
    handlers,           \* TRUE once signal(SIGINT/SIGTERM, signal_handler) ran
    shutdown_requested, \* the global flag written by signal_handler
    signals,            \* number of signals delivered so far
    main_loop,          \* the global GMainLoop pointer: "null", "live", "freed"
    is_running,         \* the loop's is_running flag
    pipeline,           \* the ingest pipeline object: "null", "live", "freed"
    rtsp_server,        \* the RTSP server object: "null", "live", "freed"
    attached,           \* TRUE once the server's source is on the context
    unrefs,             \* number of releases main() performed per object
    state_requests,     \* targets of gst_element_set_state(pipeline, .)
    bus,                \* messages posted on the pipeline's bus, not yet popped
    handled,            \* messages bus_callback has handled, in order
    watch,              \* the bus watch is installed on the default context
    sink_peer,          \* source pad linked to depay's sink pad, or NoPad
    pad_events,         \* pad-added deliveries: pad, its caps, what was done
    callbacks,          \* per streaming thread: the pad on_pad_added is about to link
    sessions,           \* number of client sessions on the mount point
    registry,           \* codec features the GStreamer registry holds
    use_hardware_accel, \* config.use_hardware_accel (FALSE with --no-hw)
    hw_type,            \* main()'s local hw_type, "unset" before its declaration
    pipeline_hw,        \* hw_type argument create_input_pipeline was called with
    server_hw,          \* hw_type argument create_rtsp_server was called with
    launch,             \* decoder and encoder of the factory's launch pipeline
    reported,           \* new state of the last pipeline transition bus_callback printed
    argv,               \* the command line, argv[1..argc-1]
    config,             \* the ReplayConfig fields other than use_hardware_accel
    plugins,            \* required plugins the registry holds
    missing,            \* plugins check_required_plugins reported as MISSING
    build,              \* what create_input_pipeline made, linked and released
    queue2,             \* chunks held by the ring-buffer element
    file,               \* chunks filesink appended to /tmp/replay-buffer.h264
    factory,            \* settings of the media factory on the mount point
    media,              \* media instances (playback graphs) of the factory
    served              \* transports over which a session was set up or refused

vars == <<pc, exit_code, handlers, shutdown_requested, signals, main_loop,
          is_running, pipeline, rtsp_server, attached, unrefs, state_requests,
          bus, handled, watch, sink_peer, pad_events, callbacks, sessions, registry,
          use_hardware_accel, hw_type, pipeline_hw, server_hw, launch, reported,
          argv, config, plugins, missing, build, queue2, file, factory, media,
          served>>

mainVars == <<pc, exit_code>>
sigVars  == <<handlers, shutdown_requested, signals>>
loopVars == <<main_loop, is_running>>
objVars  == <<pipeline, rtsp_server, attached, unrefs>>
busVars  == <<bus, handled, watch>>
padVars  == <<sink_peer, pad_events, callbacks>>
cfgVars  == <<registry, use_hardware_accel>>
hwVars   == <<registry, use_hardware_accel, hw_type, pipeline_hw, server_hw, launch>>
startVars  == <<argv, config, plugins, missing>>
ingestVars == <<build, queue2, file>>
serveVars  == <<factory, media, served>>

(***************************************************************************)
(* Bounds of the model.                                                    *)
(***************************************************************************)
MaxPosted  == 3   \* messages the engine posts on the bus in one run
MaxSignals == 2   \* signals delivered in one run
MaxClients == 2   \* simultaneous client sessions
MaxConnects == 3  \* session set-ups attempted in one run
MaxPads    == 2   \* distinct source pads the RTSP source can announce
MaxPadEvents == 3 \* pad-added deliveries in one run
MaxThreads == 2   \* streaming threads of the source that emit pad-added
MaxFatal   == 1   \* fatal notifications posted in one run of the serving scenario
MaxBuffering == 5 \* Buffering notifications in one run of the buffering scenario
MaxEvents  == 1   \* Error, EOS and Buffering messages in one run of the selection scenario
MaxArgs    == 4   \* arguments on the command line
MaxFeed    == 3   \* seconds of video fed in one run
MaxTransitions == 3 \* StateChanged and Buffering messages in one run of the state scenario

NoExit == -1
NoPad  == 0

Objects == {"pipeline", "rtsp_server", "main_loop"}

(***************************************************************************)
(* Bus messages (GstMessage): type, the element that posted it, and the    *)
(* payload of Buffering (percent) and StateChanged (new state).            *)
(***************************************************************************)
Msg(t, s, p, n) == [type |-> t, src |-> s, percent |-> p, new_state |-> n]

PipelineName == "input-pipeline"
Percents     == {99, 100}
LevelPercents == {0, 60, 100}

ErrorMsgs     == {Msg("ERROR", s, 0, "-") : s \in {"source", PipelineName}}
WarningMsgs   == {Msg("WARNING", "source", 0, "-")}
EosMsgs       == {Msg("EOS", PipelineName, 0, "-")}
StateMsgs     == {Msg("STATE_CHANGED", s, 0, "PLAYING") : s \in {PipelineName, "ring-buffer"}}
BufferingMsgs == {Msg("BUFFERING", "ring-buffer", p, "-") : p \in Percents}
LevelMsgs     == {Msg("BUFFERING", "ring-buffer", p, "-") : p \in LevelPercents}
ElementMsgs   == {Msg("ELEMENT", "source", 0, "-")}
OtherMsgs     == {Msg("STREAM_START", PipelineName, 0, "-")}

\* State transitions the pipeline and one of its children confirm, to
\* Paused and to Playing.
TransitionMsgs == {Msg("STATE_CHANGED", s, 0, n) :
                      s \in {PipelineName, "ring-buffer"}, n \in {"PAUSED", "PLAYING"}}

Messages == ErrorMsgs \cup WarningMsgs \cup EosMsgs \cup StateMsgs
            \cup BufferingMsgs \cup ElementMsgs \cup OtherMsgs

(***************************************************************************)
(* Caps of an announced pad: the "media" and "encoding-name" strings of    *)
(* its first structure; "NULL" when the field is absent.                   *)
(***************************************************************************)
Pads == 1..MaxPads

\* Streaming threads of the source that can emit pad-added.
Threads == 1..MaxThreads
Caps == { [media |-> "video", encoding |-> "H264"],
          [media |-> "audio", encoding |-> "MPA"],
          [media |-> "video", encoding |-> "JPEG"],
          [media |-> "audio", encoding |-> "H264"],
          [media |-> "NULL",  encoding |-> "NULL"] }

(***************************************************************************)
(* The command line.  A token is a string; Chars gives its characters,     *)
(* which is what std::stoi reads.                                          *)
(***************************************************************************)
Tokens == {"-i", "rtsp://cam", "-b", "--gpu", "--no-hw", "-h", "2", "abc"}

Argvs == UNION {[1..k -> Tokens] : k \in 0..MaxArgs}

Chars(tok) ==
    CASE tok = "2"          -> <<"2">>
      [] tok = "0"          -> <<"0">>
      [] tok = "-5"         -> <<"-", "5">>
      [] tok = "2147483647" -> <<"2", "1", "4", "7", "4", "8", "3", "6", "4", "7">>
      [] tok = "abc"        -> <<"a", "b", "c">>
      [] tok = "-i"         -> <<"-", "i">>
      [] tok = "-b"         -> <<"-", "b">>
      [] tok = "-h"         -> <<"-", "h">>
      [] tok = "--gpu"      -> <<"-", "-", "g", "p", "u">>
      [] tok = "--no-hw"    -> <<"-", "-", "n", "o", "-", "h", "w">>
      [] tok = "rtsp://cam" -> <<"r", "t", "s", "p", ":", "/", "/", "c", "a", "m">>

DigitOf == ("0" :> 0) @@ ("1" :> 1) @@ ("2" :> 2) @@ ("3" :> 3) @@ ("4" :> 4)
           @@ ("5" :> 5) @@ ("6" :> 6) @@ ("7" :> 7) @@ ("8" :> 8) @@ ("9" :> 9)

IntMax == 2147483647

\* The digits of cs from position i on, accumulated the way strtol does;
\* over is set once the magnitude leaves the range of int.
RECURSIVE Accumulate(_, _, _, _, _)
Accumulate(cs, i, acc, n, over) ==
    IF i > Len(cs) \/ cs[i] \notin DOMAIN DigitOf
       THEN [value |-> acc, digits |-> n, over |-> over]
       ELSE LET d == DigitOf[cs[i]] IN
            IF over \/ acc > (IntMax - d) \div 10
               THEN Accumulate(cs, i + 1, acc, n + 1, TRUE)
               ELSE Accumulate(cs, i + 1, acc * 10 + d, n + 1, FALSE)

\* std::stoi: an optional sign, then digits; characters after the digits
\* are ignored; no digit at all throws std::invalid_argument, a value
\* outside int throws std::out_of_range.
stoi(tok) ==
    LET cs    == Chars(tok)
        neg   == cs # <<>> /\ cs[1] = "-"
        first == IF cs # <<>> /\ cs[1] \in {"-", "+"} THEN 2 ELSE 1
        r     == Accumulate(cs, first, 0, 0, FALSE)
    IN  IF r.digits = 0 THEN [thrown |-> "invalid_argument", value |-> 0]
        ELSE IF r.over THEN [thrown |-> "out_of_range", value |-> 0]
        ELSE [thrown |-> "none", value |-> IF neg THEN 0 - r.value ELSE r.value]

\* main.cpp:37-42  ReplayConfig's constructor
DefaultConfig ==
    [input_rtsp_url |-> "", buffer_seconds |-> 60, output_rtsp_port |-> 8554,
     use_hardware_accel |-> TRUE, gpu_id |-> 0, output_mount_point |-> "/replay"]

\* main.cpp:360-409  parse_arguments from argv[i] on: "ok" when it returns
\* true, "fail" when it returns false, "throw" when std::stoi throws (the
\* exception is caught nowhere).  -h, --help, an unknown argument and an
\* option that lacks its value all end in a return of false.
RECURSIVE ParseFrom(_, _, _)
ParseFrom(args, i, cfg) ==
    IF i > Len(args)
       THEN [result |-> IF cfg.input_rtsp_url = "" THEN "fail" ELSE "ok", config |-> cfg]
       ELSE
         LET arg  == args[i]
             more == i + 1 <= Len(args)
             num  == stoi(args[i + 1])
         IN  IF arg \in {"-i", "--input"} /\ more
                THEN ParseFrom(args, i + 2, [cfg EXCEPT !.input_rtsp_url = args[i + 1]])
             ELSE IF arg \in {"-b", "--buffer"} /\ more
                THEN IF num.thrown # "none"
                        THEN [result |-> "throw", config |-> cfg]
                        ELSE ParseFrom(args, i + 2, [cfg EXCEPT !.buffer_seconds = num.value])
             ELSE IF arg \in {"-p", "--port"} /\ more
                THEN IF num.thrown # "none"
                        THEN [result |-> "throw", config |-> cfg]
                        ELSE ParseFrom(args, i + 2, [cfg EXCEPT !.output_rtsp_port = num.value])
             ELSE IF arg = "--no-hw"
                THEN ParseFrom(args, i + 1, [cfg EXCEPT !.use_hardware_accel = FALSE])
             ELSE IF arg = "--gpu" /\ more
                THEN IF num.thrown # "none"
                        THEN [result |-> "throw", config |-> cfg]
                        ELSE ParseFrom(args, i + 2, [cfg EXCEPT !.gpu_id = num.value])
             ELSE IF arg \in {"-m", "--mount"} /\ more
                THEN ParseFrom(args, i + 2, [cfg EXCEPT !.output_mount_point = args[i + 1]])
             ELSE [result |-> "fail", config |-> cfg]

parse_arguments(args, cfg) == ParseFrom(args, 1, cfg)

\* A command line that names the camera and nothing else.
PlainArgs == <<"-i", "rtsp://cam">>

\* Values given to -b: zero, a negative number, a small one and the largest
\* int.
BufferValues == {"0", "-5", "2", "2147483647"}
BufferArgvs  == {PlainArgs \o <<"-b", v>> : v \in BufferValues}

(***************************************************************************)
(* Plugins check_required_plugins looks up (main.cpp:413-416).             *)
(***************************************************************************)
RequiredPlugins == {"rtsp", "rtp", "rtpmanager", "coreelements", "playback",
                    "videoparsersbad", "libav"}

(***************************************************************************)
(* The ingest pipeline's elements, by name (main.cpp:230-234), and the     *)
(* links gst_element_link_many makes (main.cpp:276).                       *)
(***************************************************************************)
Elements == {"source", "depay", "parse", "ring-buffer", "output"}

NoBuild == [object |-> "none", made |-> {}, released |-> {}, links |-> {},
            pad_added |-> FALSE]

(***************************************************************************)
(* Media factory and transports (GstRTSPLowerTrans).                       *)
(***************************************************************************)
Transports == {"UDP", "UDP_MCAST", "TCP"}

NoFactory == [shared |-> FALSE, enable_rtcp |-> FALSE, protocols |-> {},
              media_configure |-> FALSE, device |-> 0]

NoneServed == [log |-> <<>>]

(***************************************************************************)
(* Hardware codec features main.cpp looks up or names, and the launch      *)
(* pipeline's codec pair.                                                  *)
(***************************************************************************)
Features == {"nvh264dec", "nvh264enc", "vaapih264dec", "vaapih264enc",
             "msdkh264dec", "msdkh264enc"}

HWAccelType == {"HW_ACCEL_NONE", "HW_ACCEL_NVIDIA", "HW_ACCEL_VAAPI", "HW_ACCEL_MSDK"}

NoLaunch == [decoder |-> "-", encoder |-> "-"]

TypeOK ==
    /\ pc \in {"parse_arguments", "check_plugins", "detect_hardware", "install_handlers",
              "create_pipeline", "bus_watch", "create_server", "attach_server",
              "start_pipeline", "loop_new", "loop_run", "loop_check", "loop_iterate",
              "cleanup", "unref_pipeline", "unref_server", "unref_loop", "return",
              "exited", "crashed", "aborted"}
    /\ exit_code \in {NoExit, 0, 1}
    /\ handlers \in BOOLEAN
    /\ shutdown_requested \in {0, 1}
    /\ signals \in 0..(MaxSignals + 1)
    /\ main_loop \in {"null", "live", "freed"}
    /\ is_running \in BOOLEAN
    /\ pipeline \in {"null", "live", "freed"}
    /\ rtsp_server \in {"null", "live", "freed"}
    /\ attached \in BOOLEAN
    /\ unrefs \in [Objects -> 0..2]
    /\ watch \in BOOLEAN
    /\ sink_peer \in Pads \cup {NoPad}
    /\ callbacks \in [Threads -> Pads \cup {NoPad}]
    /\ sessions \in 0..(MaxClients + 1)
    /\ registry \subseteq Features
    /\ use_hardware_accel \in BOOLEAN
    /\ hw_type \in HWAccelType \cup {"unset"}
    /\ pipeline_hw \in HWAccelType \cup {"-"}
    /\ server_hw \in HWAccelType \cup {"-"}
    /\ launch \in [decoder : STRING, encoder : STRING]
    /\ reported \in {"-", "READY", "PAUSED", "PLAYING"}
    /\ argv \in Argvs \cup BufferArgvs
    /\ config.buffer_seconds \in Int /\ config.gpu_id \in Int
    /\ plugins \subseteq RequiredPlugins
    /\ missing \subseteq RequiredPlugins
    /\ build.object \in {"none", "live", "freed"}
    /\ build.made \subseteq Elements /\ build.released \subseteq build.made
    /\ factory.protocols \subseteq Transports
    /\ Len(served.log) <= 2 * (MaxConnects + 1)
    /\ Len(media) <= MaxClients + 1

\* The state after construction on a machine whose registry holds the
\* codec features reg and the plugins pl, started with the command line
\* args.
InitWith(reg, pl, args) ==
    /\ registry = reg
    /\ plugins = pl
    /\ argv = args
    /\ config = DefaultConfig
    /\ use_hardware_accel = DefaultConfig.use_hardware_accel
    /\ missing = {}
    /\ build = NoBuild
    /\ queue2 = <<>>
    /\ file = <<>>
    /\ factory = NoFactory
    /\ media = <<>>
    /\ served = NoneServed
    /\ hw_type = "unset"
    /\ pipeline_hw = "-"
    /\ server_hw = "-"
    /\ launch = NoLaunch
    /\ reported = "-"
    /\ pc = "parse_arguments"
    /\ exit_code = NoExit
    /\ handlers = FALSE
    /\ shutdown_requested = 0
    /\ signals = 0
    /\ main_loop = "null"
    /\ is_running = FALSE
    /\ pipeline = "null"
    /\ rtsp_server = "null"
    /\ attached = FALSE
    /\ unrefs = [o \in Objects |-> 0]
    /\ state_requests = <<>>
    /\ bus = <<>>
    /\ handled = <<>>
    /\ watch = FALSE
    /\ sink_peer = NoPad
    /\ pad_events = <<>>
    /\ callbacks = [t \in Threads |-> NoPad]
    /\ sessions = 0

\* A machine with every required plugin and no hardware codec, started
\* with the camera's URL only.
Init == InitWith({}, RequiredPlugins, PlainArgs)

\* Every registry content, with and without --no-hw.
SelectInit ==
    \E reg \in SUBSET Features, args \in {PlainArgs, PlainArgs \o <<"--no-hw">>} :
        InitWith(reg, RequiredPlugins, args)

\* Every command line of at most MaxArgs tokens, on a machine without
\* hardware codecs and on one with the NVIDIA codecs.
ArgsInit ==
    \E args \in Argvs, reg \in {{}, {"nvh264dec", "nvh264enc"}} :
        InitWith(reg, RequiredPlugins, args)

\* Every set of installed plugins.
PluginInit == \E pl \in SUBSET RequiredPlugins : InitWith({}, pl, PlainArgs)

\* The default buffer of 60 seconds and a buffer of 2 seconds.
FlowInit ==
    \E args \in {PlainArgs, PlainArgs \o <<"-b", "2">>} :
        InitWith({}, RequiredPlugins, args)

\* The buffer lengths of BufferValues.
BufferInit == \E args \in BufferArgvs : InitWith({}, RequiredPlugins, args)

(***************************************************************************)
(* main(): startup.  Each step that can fail draws its outcome.            *)
(***************************************************************************)
Return(code) ==
    /\ pc' = "exited"
    /\ exit_code' = code

\* main.cpp:444  if (!parse_arguments(argc, argv, config)) return 1;
\* an exception leaving parse_arguments leaves main() too and the runtime
\* aborts the process.
ParseArguments ==
    /\ pc = "parse_arguments"
    /\ LET r == parse_arguments(argv, config) IN
          /\ config' = r.config
          /\ use_hardware_accel' = r.config.use_hardware_accel
          /\ CASE r.result = "ok"    -> pc' = "check_plugins" /\ exit_code' = exit_code
               [] r.result = "fail"  -> Return(1)
               [] r.result = "throw" -> pc' = "aborted" /\ exit_code' = exit_code
    /\ UNCHANGED <<sigVars, loopVars, objVars, state_requests, busVars, padVars, registry,
                   hw_type, pipeline_hw, server_hw, launch, reported, sessions, argv,
                   plugins, missing, ingestVars, serveVars>>

\* Mutant of MissingPlugins: nothing is ever found missing.
MissingPluginsNone(pl) == {}

\* main.cpp:421-431  the plugins reported as MISSING
MissingPlugins(pl) == RequiredPlugins \ pl

\* main.cpp:449  if (!check_required_plugins()) return 1;
CheckPlugins ==
    /\ pc = "check_plugins"
    /\ missing' = MissingPlugins(plugins)
    /\ IF missing' = {} THEN pc' = "detect_hardware" /\ exit_code' = exit_code
                        ELSE Return(1)
    /\ UNCHANGED <<sigVars, loopVars, objVars, state_requests, busVars, padVars, hwVars,
                   reported, sessions, argv, config, plugins, ingestVars, serveVars>>

\* Mutant of detect_hardware_accel: the encoders are looked up in place of
\* the decoders.
detect_by_encoder(reg) ==
    IF "nvh264enc" \in reg THEN "HW_ACCEL_NVIDIA"
    ELSE IF "vaapih264enc" \in reg THEN "HW_ACCEL_VAAPI"
    ELSE IF "msdkh264enc" \in reg THEN "HW_ACCEL_MSDK"
    ELSE "HW_ACCEL_NONE"

\* Mutant of detect_hardware_accel: VAAPI is looked up before NVIDIA.
detect_vaapi_first(reg) ==
    IF "vaapih264dec" \in reg THEN "HW_ACCEL_VAAPI"
    ELSE IF "nvh264dec" \in reg THEN "HW_ACCEL_NVIDIA"
    ELSE IF "msdkh264dec" \in reg THEN "HW_ACCEL_MSDK"
    ELSE "HW_ACCEL_NONE"

\* main.cpp:58-87  detect_hardware_accel: three registry lookups, in order
detect_hardware_accel(reg) ==
    IF "nvh264dec" \in reg THEN "HW_ACCEL_NVIDIA"
    ELSE IF "vaapih264dec" \in reg THEN "HW_ACCEL_VAAPI"
    ELSE IF "msdkh264dec" \in reg THEN "HW_ACCEL_MSDK"
    ELSE "HW_ACCEL_NONE"

\* main.cpp:90-97
get_decoder_element(hw) ==
    CASE hw = "HW_ACCEL_NVIDIA" -> "nvh264dec"
      [] hw = "HW_ACCEL_VAAPI"  -> "vaapih264dec"
      [] hw = "HW_ACCEL_MSDK"   -> "msdkh264dec"
      [] OTHER                  -> "avdec_h264"

\* main.cpp:100-107
get_encoder_element(hw) ==
    CASE hw = "HW_ACCEL_NVIDIA" -> "nvh264enc"
      [] hw = "HW_ACCEL_VAAPI"  -> "vaapih264enc"
      [] hw = "HW_ACCEL_MSDK"   -> "msdkh264enc"
      [] OTHER                  -> "x264enc"

\* main.cpp:323-336  the codec pair written into pipeline_str
LaunchTemplate(hw) ==
    IF hw = "HW_ACCEL_NVIDIA" THEN [decoder |-> "nvh264dec", encoder |-> "nvh264enc"]
    ELSE IF hw = "HW_ACCEL_VAAPI" THEN [decoder |-> "vaapih264dec", encoder |-> "vaapih264enc"]
    ELSE [decoder |-> "avdec_h264", encoder |-> "x264enc"]

\* Mutant of SelectHardware: --no-hw is not honoured.
SelectHardwareIgnoringFlag(use_hw, reg) ==
    detect_hardware_accel(reg)

\* main.cpp:456-461  HW_ACCEL_NONE unless hardware acceleration is enabled
SelectHardware(use_hw, reg) ==
    IF use_hw THEN detect_hardware_accel(reg) ELSE "HW_ACCEL_NONE"

\* main.cpp:456-461  hw_type is chosen once, before any graph is built.
DetectHardware ==
    /\ pc = "detect_hardware"
    /\ hw_type' = SelectHardware(use_hardware_accel, registry)
    /\ pc' = "install_handlers"
    /\ UNCHANGED <<exit_code, sigVars, loopVars, objVars, state_requests, busVars,
                   padVars, cfgVars, startVars, ingestVars, serveVars, pipeline_hw, server_hw, launch, reported, sessions>>

\* main.cpp:473-474  signal(SIGINT, signal_handler); signal(SIGTERM, ...)
InstallHandlers ==
    /\ pc = "install_handlers"
    /\ handlers' = TRUE
    /\ pc' = "create_pipeline"
    /\ UNCHANGED <<exit_code, shutdown_requested, signals, loopVars, objVars,
                   state_requests, busVars, padVars, hwVars, startVars, ingestVars, serveVars, reported, sessions>>

\* Mutant of StaticLinks: the source is linked to the depayloader at build
\* time.
StaticLinksWithSource ==
    {<<"source", "depay">>, <<"depay", "parse">>, <<"parse", "ring-buffer">>,
     <<"ring-buffer", "output">>}

\* main.cpp:276  gst_element_link_many(depay, parse, queue_buffer, filesink)
StaticLinks ==
    {<<"depay", "parse">>, <<"parse", "ring-buffer">>, <<"ring-buffer", "output">>}

\* Mutant of create_input_pipeline: a pipeline with elements missing is
\* returned as it is.
create_input_pipeline_partial(new_ok, avail, link_ok) ==
    IF ~new_ok THEN NoBuild
    ELSE [object |-> "live", made |-> avail, released |-> {},
          links |-> IF link_ok THEN StaticLinks ELSE {}, pad_added |-> TRUE]

\* main.cpp:222-287  what create_input_pipeline leaves behind when
\* gst_pipeline_new succeeds or not, the factories of avail can make their
\* element, and the static link succeeds or not.  Unreferencing the
\* pipeline releases the elements added to it.
create_input_pipeline(new_ok, avail, link_ok) ==
    IF ~new_ok THEN NoBuild
    ELSE IF avail # Elements
       THEN [object |-> "freed", made |-> avail, released |-> avail, links |-> {},
             pad_added |-> FALSE]
    ELSE IF ~link_ok
       THEN [object |-> "freed", made |-> Elements, released |-> Elements, links |-> {},
             pad_added |-> FALSE]
    ELSE [object |-> "live", made |-> Elements, released |-> {}, links |-> StaticLinks,
          pad_added |-> TRUE]

\* main.cpp:477-481  pipeline = create_input_pipeline(config, hw_type);
\* if (!pipeline) return 1;
CreateInputPipeline ==
    /\ pc = "create_pipeline"
    /\ pipeline_hw' = hw_type
    /\ \E new_ok \in BOOLEAN, avail \in SUBSET Elements, link_ok \in BOOLEAN :
          /\ build' = create_input_pipeline(new_ok, avail, link_ok)
          /\ IF build'.object = "live"
                THEN /\ pipeline' = "live"
                     /\ pc' = "bus_watch"
                     /\ exit_code' = exit_code
                ELSE /\ pipeline' = "null"
                     /\ Return(1)
    /\ UNCHANGED <<sigVars, loopVars, rtsp_server, attached, unrefs, state_requests,
                   busVars, padVars, cfgVars, startVars, hw_type, server_hw, launch,
                   reported, sessions, queue2, file, serveVars>>

\* main.cpp:484-486  gst_bus_add_watch(bus, bus_callback, NULL)
SetupBusWatch ==
    /\ pc = "bus_watch"
    /\ watch' = TRUE
    /\ pc' = "create_server"
    /\ UNCHANGED <<exit_code, sigVars, loopVars, objVars, state_requests, bus, handled,
                   padVars, hwVars, startVars, ingestVars, serveVars, reported, sessions>>

\* Mutant of ServerHardware: the server re-runs the detection.
ServerHardwareRedetected(hw, reg) ==
    detect_hardware_accel(reg)

\* main.cpp:489  create_rtsp_server(config, hw_type)
ServerHardware(hw, reg) == hw

\* Mutant of FactorySettings: the factory is left unshared.
FactoryNotShared(cfg, hw) ==
    [shared |-> FALSE, enable_rtcp |-> TRUE, protocols |-> {"TCP"},
     media_configure |-> TRUE, device |-> 0]

\* Mutant of FactorySettings: the transports are left at the library's
\* default, which allows all three.
FactoryAnyTransport(cfg, hw) ==
    [shared |-> TRUE, enable_rtcp |-> TRUE, protocols |-> Transports,
     media_configure |-> TRUE, device |-> 0]

\* main.cpp:323-347  the factory create_rtsp_server(config, hw_type) mounts:
\* shared, RTCP enabled, TCP only, media-configure connected.  No launch
\* line names a device, so the codec elements run on their default device 0
\* whatever cfg.gpu_id is.
FactorySettings(cfg, hw) ==
    [shared |-> TRUE, enable_rtcp |-> TRUE, protocols |-> {"TCP"},
     media_configure |-> TRUE, device |-> 0]

\* main.cpp:489-494, 300-338  on success the factory's launch pipeline is
\* built for the hw_type handed in; gst_rtsp_server_new failing returns
\* before any of that.
CreateRtspServer ==
    /\ pc = "create_server"
    /\ server_hw' = ServerHardware(hw_type, registry)
    /\ \E ok \in BOOLEAN :
          IF ok THEN /\ rtsp_server' = "live"
                     /\ launch' = LaunchTemplate(server_hw')
                     /\ factory' = FactorySettings(config, server_hw')
                     /\ pc' = "attach_server"
                     /\ UNCHANGED <<exit_code, pipeline, unrefs>>
                ELSE /\ rtsp_server' = "null"
                     /\ launch' = launch
                     /\ factory' = factory
                     /\ pipeline' = "freed"
                     /\ unrefs' = [unrefs EXCEPT !["pipeline"] = @ + 1]
                     /\ Return(1)
    /\ UNCHANGED <<sigVars, loopVars, attached, state_requests, busVars, padVars,
                   cfgVars, startVars, ingestVars, hw_type, pipeline_hw, reported,
                   sessions, media, served>>

\* Mutant of AttachServer: a failed attach releases the server and leaves
\* the pipeline.
AttachServerLeaks ==
    /\ pc = "attach_server"
    /\ \E server_id \in {0, 1} :
          IF server_id # 0
             THEN /\ attached' = TRUE
                  /\ pc' = "start_pipeline"
                  /\ UNCHANGED <<exit_code, pipeline, rtsp_server, unrefs>>
             ELSE /\ attached' = FALSE
                  /\ rtsp_server' = "freed"
                  /\ unrefs' = [unrefs EXCEPT !["rtsp_server"] = @ + 1]
                  /\ UNCHANGED pipeline
                  /\ Return(1)
    /\ UNCHANGED <<sigVars, loopVars, state_requests, busVars, padVars, hwVars, startVars,
                   ingestVars, serveVars, reported, sessions>>

\* main.cpp:497-503
AttachServer ==
    /\ pc = "attach_server"
    /\ \E server_id \in {0, 1} :
          IF server_id # 0
             THEN /\ attached' = TRUE
                  /\ pc' = "start_pipeline"
                  /\ UNCHANGED <<exit_code, pipeline, rtsp_server, unrefs>>
             ELSE /\ attached' = FALSE
                  /\ rtsp_server' = "freed"
                  /\ pipeline' = "freed"
                  /\ unrefs' = [unrefs EXCEPT !["rtsp_server"] = @ + 1,
                                               !["pipeline"] = @ + 1]
                  /\ Return(1)
    /\ UNCHANGED <<sigVars, loopVars, state_requests, busVars, padVars, hwVars, startVars, ingestVars, serveVars, reported, sessions>>

\* main.cpp:507-513  gst_element_set_state(pipeline, GST_STATE_PLAYING)
StartPipeline ==
    /\ pc = "start_pipeline"
    /\ state_requests' = Append(state_requests, "PLAYING")
    /\ \E ret \in {"SUCCESS", "ASYNC", "FAILURE"} :
          IF ret # "FAILURE"
             THEN /\ pc' = "loop_new"
                  /\ UNCHANGED <<exit_code, pipeline, rtsp_server, unrefs>>
             ELSE /\ rtsp_server' = "freed"
                  /\ pipeline' = "freed"
                  /\ unrefs' = [unrefs EXCEPT !["rtsp_server"] = @ + 1,
                                               !["pipeline"] = @ + 1]
                  /\ Return(1)
    /\ UNCHANGED <<sigVars, loopVars, attached, busVars, padVars, hwVars, startVars, ingestVars, serveVars, reported, sessions>>

\* main.cpp:520  main_loop = g_main_loop_new(NULL, FALSE);
LoopNew ==
    /\ pc = "loop_new"
    /\ main_loop' = "live"
    /\ is_running' = FALSE
    /\ pc' = "loop_run"
    /\ UNCHANGED <<exit_code, sigVars, objVars, state_requests, busVars, padVars, hwVars, startVars, ingestVars, serveVars, reported,
                   sessions>>

\* main.cpp:521  g_main_loop_run(main_loop): entry sets is_running = TRUE.
LoopRun ==
    /\ pc = "loop_run"
    /\ is_running' = TRUE
    /\ pc' = "loop_check"
    /\ UNCHANGED <<exit_code, sigVars, main_loop, objVars, state_requests, busVars,
                   padVars, hwVars, startVars, ingestVars, serveVars, reported, sessions>>

\* g_main_loop_run: while (is_running) g_main_context_iterate(...)
LoopCheck ==
    /\ pc = "loop_check"
    /\ pc' = IF is_running THEN "loop_iterate" ELSE "cleanup"
    /\ UNCHANGED <<exit_code, sigVars, loopVars, objVars, state_requests, busVars,
                   padVars, hwVars, startVars, ingestVars, serveVars, reported, sessions>>

\* An iteration blocked in poll with nothing to dispatch returns when
\* g_main_loop_quit wakes the context up.
LoopWakeup ==
    /\ pc = "loop_iterate"
    /\ bus = <<>>
    /\ ~is_running
    /\ pc' = "loop_check"
    /\ UNCHANGED <<exit_code, sigVars, loopVars, objVars, state_requests, busVars,
                   padVars, hwVars, startVars, ingestVars, serveVars, reported, sessions>>

(***************************************************************************)
(* main(): cleanup, main.cpp:523-531.                                      *)
(***************************************************************************)
\* main.cpp:525  gst_element_set_state(pipeline, GST_STATE_NULL);
CleanupSetNull ==
    /\ pc = "cleanup"
    /\ state_requests' = Append(state_requests, "NULL")
    /\ pc' = "unref_pipeline"
    /\ UNCHANGED <<exit_code, sigVars, loopVars, objVars, busVars, padVars, hwVars, startVars, ingestVars, serveVars, reported, sessions>>

\* main.cpp:526  gst_object_unref(pipeline);
UnrefPipeline ==
    /\ pc = "unref_pipeline"
    /\ pipeline' = "freed"
    /\ unrefs' = [unrefs EXCEPT !["pipeline"] = @ + 1]
    /\ pc' = "unref_server"
    /\ UNCHANGED <<exit_code, sigVars, loopVars, rtsp_server, attached, state_requests,
                   busVars, padVars, hwVars, startVars, ingestVars, serveVars, reported, sessions>>

\* Mutant of UnrefServer: the pipeline is released a second time in place
\* of the server.
UnrefPipelineAgain ==
    /\ pc = "unref_server"
    /\ pipeline' = "freed"
    /\ unrefs' = [unrefs EXCEPT !["pipeline"] = @ + 1]
    /\ pc' = "unref_loop"
    /\ UNCHANGED <<exit_code, sigVars, loopVars, rtsp_server, attached, state_requests,
                   busVars, padVars, hwVars, startVars, ingestVars, serveVars, reported, sessions>>

\* main.cpp:527  g_object_unref(rtsp_server);
UnrefServer ==
    /\ pc = "unref_server"
    /\ rtsp_server' = "freed"
    /\ unrefs' = [unrefs EXCEPT !["rtsp_server"] = @ + 1]
    /\ pc' = "unref_loop"
    /\ UNCHANGED <<exit_code, sigVars, loopVars, pipeline, attached, state_requests,
                   busVars, padVars, hwVars, startVars, ingestVars, serveVars, reported, sessions>>

\* main.cpp:528  g_main_loop_unref(main_loop); the global keeps the address.
UnrefLoop ==
    /\ pc = "unref_loop"
    /\ main_loop' = "freed"
    /\ unrefs' = [unrefs EXCEPT !["main_loop"] = @ + 1]
    /\ pc' = "return"
    /\ UNCHANGED <<exit_code, sigVars, is_running, pipeline, rtsp_server, attached,
                   state_requests, busVars, padVars, hwVars, startVars, ingestVars, serveVars, reported, sessions>>

\* main.cpp:530-531  return 0;
Return0 ==
    /\ pc = "return"
    /\ Return(0)
    /\ UNCHANGED <<sigVars, loopVars, objVars, state_requests, busVars, padVars, hwVars, startVars, ingestVars, serveVars, reported,
                   sessions>>

Startup ==
    \/ ParseArguments \/ CheckPlugins \/ DetectHardware \/ InstallHandlers
    \/ CreateInputPipeline \/ SetupBusWatch \/ CreateRtspServer \/ AttachServer
    \/ StartPipeline \/ LoopNew \/ LoopRun

Cleanup ==
    CleanupSetNull \/ UnrefPipeline \/ UnrefServer \/ UnrefLoop \/ Return0


(***************************************************************************)
(* g_main_loop_quit(loop).  On a live loop it clears is_running (and wakes *)
(* the context).  On NULL it returns at its argument check.  On a released *)
(* loop the call reads and writes freed memory: it may pass unnoticed or   *)
(* fault.                                                                  *)
(***************************************************************************)
QuitOutcomes(loop) ==
    CASE loop = "live"  -> {"stopped"}
      [] loop = "null"  -> {"ignored"}
      [] loop = "freed" -> {"ignored", "fault"}

\* The effect of g_main_loop_quit(main_loop) with outcome o; the caller
\* continues at `next` unless the call faults.
LoopQuit(o, next) ==
    /\ is_running' = IF o = "stopped" THEN FALSE ELSE is_running
    /\ pc' = IF o = "fault" THEN "crashed" ELSE next

Alive == pc \notin {"exited", "crashed", "aborted"}

\* main.cpp:110-116  signal_handler: sets the flag and quits the loop when
\* the global pointer is non-null (a released loop's address is non-null).
signal_handler ==
    /\ shutdown_requested' = 1
    /\ IF main_loop # "null"
          THEN \E o \in QuitOutcomes(main_loop) : LoopQuit(o, pc)
          ELSE UNCHANGED <<is_running, pc>>

\* Delivery of SIGINT or SIGTERM once the handlers are installed.
Signal ==
    /\ Alive
    /\ handlers
    /\ signals < MaxSignals
    /\ signals' = signals + 1
    /\ signal_handler
    /\ UNCHANGED <<exit_code, handlers, main_loop, objVars, state_requests, busVars,
                   padVars, hwVars, startVars, ingestVars, serveVars, reported, sessions>>

(***************************************************************************)
(* bus_callback, main.cpp:119-181: one handler per message type.  Each     *)
(* handler returns to the loop, which re-tests is_running.                 *)
(***************************************************************************)
\* Mutant of OnError: the error is logged and the loop is left running.
OnErrorNoQuit(m) ==
    /\ pc' = "loop_check"
    /\ UNCHANGED <<is_running, state_requests, reported>>

\* main.cpp:121-132  log, then g_main_loop_quit(main_loop)
OnError(m) ==
    /\ \E o \in QuitOutcomes(main_loop) : LoopQuit(o, "loop_check")
    /\ UNCHANGED <<state_requests, reported>>

\* Mutant of OnWarning: a warning is treated like an error.
OnWarningQuits(m) ==
    /\ \E o \in QuitOutcomes(main_loop) : LoopQuit(o, "loop_check")
    /\ UNCHANGED <<state_requests, reported>>

\* main.cpp:133-143  log only
OnWarning(m) ==
    /\ pc' = "loop_check"
    /\ UNCHANGED <<is_running, state_requests, reported>>

\* Mutant of OnEos: end of stream is logged and the loop is left running.
OnEosNoQuit(m) ==
    /\ pc' = "loop_check"
    /\ UNCHANGED <<is_running, state_requests, reported>>

\* main.cpp:144-147  g_main_loop_quit(main_loop)
OnEos(m) ==
    /\ \E o \in QuitOutcomes(main_loop) : LoopQuit(o, "loop_check")
    /\ UNCHANGED <<state_requests, reported>>

\* Mutant of OnStateChanged: the origin of the message is not tested.
OnStateChangedAnyOrigin(m) ==
    /\ reported' = m.new_state
    /\ pc' = "loop_check"
    /\ UNCHANGED <<is_running, state_requests>>

\* Mutant of OnStateChanged: the confirmed state is asked of the pipeline
\* again.
OnStateChangedReconciles(m) ==
    /\ reported' = IF m.src = PipelineName THEN m.new_state ELSE reported
    /\ state_requests' = Append(state_requests, m.new_state)
    /\ pc' = "loop_check"
    /\ UNCHANGED is_running

\* main.cpp:148-157  prints the transition when the pipeline posted it
OnStateChanged(m) ==
    /\ reported' = IF m.src = PipelineName THEN m.new_state ELSE reported
    /\ pc' = "loop_check"
    /\ UNCHANGED <<is_running, state_requests>>

\* Mutant of BufferingTarget: the threshold is off by one.
BufferingTargetOffByOne(percent) ==
    IF percent < 99 THEN "PAUSED" ELSE "PLAYING"

\* main.cpp:162-166  the state the Buffering handler asks for
BufferingTarget(percent) ==
    IF percent < 100 THEN "PAUSED" ELSE "PLAYING"

\* Mutant of OnBuffering: edge-triggered, every notification flips the
\* requested state.
OnBufferingToggle(m) ==
    /\ state_requests' = Append(state_requests,
                                IF state_requests[Len(state_requests)] = "PLAYING"
                                   THEN "PAUSED" ELSE "PLAYING")
    /\ pc' = "loop_check"
    /\ UNCHANGED <<is_running, reported>>

\* main.cpp:158-168  gst_element_set_state(pipeline, PAUSED or PLAYING)
OnBuffering(m) ==
    /\ state_requests' = Append(state_requests, BufferingTarget(m.percent))
    /\ pc' = "loop_check"
    /\ UNCHANGED <<is_running, reported>>

\* main.cpp:169-179  GST_MESSAGE_ELEMENT and every other type: nothing
OnOther(m) ==
    /\ pc' = "loop_check"
    /\ UNCHANGED <<is_running, state_requests, reported>>

bus_callback(m) ==
    \/ m.type = "ERROR" /\ OnError(m)
    \/ m.type = "WARNING" /\ OnWarning(m)
    \/ m.type = "EOS" /\ OnEos(m)
    \/ m.type = "STATE_CHANGED" /\ OnStateChanged(m)
    \/ m.type = "BUFFERING" /\ OnBuffering(m)
    \/ m.type \notin {"ERROR", "WARNING", "EOS", "STATE_CHANGED", "BUFFERING"} /\ OnOther(m)

\* Mutant of CallbackReturn: the watch is dropped once the message that
\* stops the loop was handled.
CallbackReturnDropsWhenDone(m) == m.type \notin {"ERROR", "EOS"}

\* main.cpp:180  bus_callback returns TRUE whatever the message was
CallbackReturn(m) == TRUE

\* The bus watch pops the oldest message and hands it to the callback; the
\* watch stays installed as long as the callback returns TRUE.
Pop ==
    /\ watch
    /\ bus' = Tail(bus)
    /\ handled' = Append(handled, Head(bus))
    /\ watch' = CallbackReturn(Head(bus))
    /\ UNCHANGED <<exit_code, sigVars, main_loop, objVars, padVars, hwVars, startVars, ingestVars, serveVars, sessions>>

\* Mutant of Dispatch: the watch delivers a message as soon as one is on
\* the bus, whether or not main() is inside g_main_loop_run.
DispatchOutsideLoop ==
    /\ Alive
    /\ bus # <<>>
    /\ bus_callback(Head(bus))
    /\ Pop

\* main.cpp:484-486, 521  the watch is a source of the default context, which
\* only g_main_loop_run iterates: one dispatch inside an iteration of the loop
Dispatch ==
    /\ pc = "loop_iterate"
    /\ bus # <<>>
    /\ bus_callback(Head(bus))
    /\ Pop

\* The same dispatch when the message at the head is a Buffering message.
DispatchBuffering ==
    /\ pc = "loop_iterate"
    /\ bus # <<>>
    /\ Head(bus).type = "BUFFERING"
    /\ OnBuffering(Head(bus))
    /\ Pop

\* The same dispatch when the head is a StateChanged or a Buffering message.
DispatchTransition ==
    /\ pc = "loop_iterate"
    /\ bus # <<>>
    /\ \/ Head(bus).type = "STATE_CHANGED" /\ OnStateChanged(Head(bus))
       \/ Head(bus).type = "BUFFERING" /\ OnBuffering(Head(bus))
    /\ Pop

(***************************************************************************)
(* The engine: it posts on the bus while the pipeline has been asked to    *)
(* run and has not been asked to go to Null.                               *)
(***************************************************************************)
Last(s) == s[Len(s)]

Streaming ==
    /\ Alive
    /\ pipeline = "live"
    /\ state_requests # <<>>
    /\ Last(state_requests) # "NULL"
    /\ pc # "start_pipeline"

Post(m, limit) ==
    /\ Streaming
    /\ Len(bus) + Len(handled) < limit
    /\ bus' = Append(bus, m)
    /\ UNCHANGED <<mainVars, sigVars, loopVars, objVars, state_requests, handled, watch,
                   padVars, hwVars, startVars, ingestVars, serveVars, reported, sessions>>

PostAny == \E m \in Messages : Post(m, MaxPosted)

PostFatal == \E m \in ErrorMsgs \cup EosMsgs : Post(m, MaxFatal)

PostLevel == \E m \in LevelMsgs : Post(m, MaxBuffering)

PostEvent == \E m \in ErrorMsgs \cup EosMsgs \cup BufferingMsgs : Post(m, MaxEvents)

PostTransition == \E m \in TransitionMsgs \cup BufferingMsgs : Post(m, MaxTransitions)

(***************************************************************************)
(* Client sessions.  The listening socket is a source of the default       *)
(* context: a connection is accepted only by an iteration of the main      *)
(* loop.  A session ends when its client sends TEARDOWN or when the        *)
(* connection closes.  As gst-rtsp-server implements it:                   *)
(*  - SETUP over a transport the factory does not allow is refused;        *)
(*  - a shared factory hands the media it already has to every client,     *)
(*    an unshared one constructs a media per client; media-configure       *)
(*    is emitted once for each media constructed; a media is born with     *)
(*    stop_on_disconnect = TRUE;                                           *)
(*  - a media is unprepared when the last session using it lets go of it;  *)
(*    the session of a closed connection lets go of a media only when the  *)
(*    media has stop_on_disconnect set, otherwise the session lingers and  *)
(*    holds the media (main.cpp installs no session-pool cleanup).         *)
(***************************************************************************)
Event(k, t) == [kind |-> k, transport |-> t]

Attempts == Len(SelectSeq(served.log, LAMBDA e : e.kind \in {"setup", "refused"}))

\* Mutant of media_configure_callback: the media is left as constructed.
media_configure_nothing(m) == m

\* main.cpp:290-297  gst_rtsp_media_set_stop_on_disconnect(media, FALSE)
media_configure_callback(m) == [m EXCEPT !.stop_on_disconnect = FALSE]

\* A media as the factory constructs it, before media-configure.
NewMedia == [stop_on_disconnect |-> TRUE, viewers |-> 0, held |-> FALSE]

Configured(m) == IF factory.media_configure THEN media_configure_callback(m) ELSE m

\* The media of the mount point after one more client has set up a session.
Joined(ms) ==
    IF factory.shared /\ ms # <<>>
       THEN [ms EXCEPT ![1].viewers = @ + 1]
       ELSE Append(ms, [Configured(NewMedia) EXCEPT !.viewers = 1])

\* The media after a session let go of media i, or began to linger on it.
Left(ms, i, lingers) ==
    LET m == [ms[i] EXCEPT !.viewers = @ - 1, !.held = @ \/ lingers] IN
    IF m.viewers = 0 /\ ~m.held
       THEN SubSeq(ms, 1, i - 1) \o SubSeq(ms, i + 1, Len(ms))
       ELSE [ms EXCEPT ![i] = m]

\* Mutant of AcceptClient: the attached server serves connections by itself,
\* as soon as it is attached.
AcceptClientOnAttach ==
    /\ pc \in {"start_pipeline", "loop_iterate"}
    /\ attached
    /\ sessions < MaxClients
    /\ Attempts < MaxConnects
    /\ \E t \in Transports :
          IF t \in factory.protocols
             THEN /\ sessions' = sessions + 1
                  /\ media' = Joined(media)
                  /\ served' = [served EXCEPT !.log = Append(@, Event("setup", t))]
             ELSE /\ served' = [served EXCEPT !.log = Append(@, Event("refused", t))]
                  /\ UNCHANGED <<sessions, media>>
    /\ pc' = IF pc = "loop_iterate" THEN "loop_check" ELSE pc
    /\ UNCHANGED <<exit_code, sigVars, loopVars, objVars, state_requests, busVars,
                   padVars, hwVars, startVars, ingestVars, factory, reported>>

\* main.cpp:497, 521  the server's socket source is attached to the default
\* context and dispatched by g_main_loop_run only
AcceptClient ==
    /\ pc = "loop_iterate"
    /\ attached
    /\ sessions < MaxClients
    /\ Attempts < MaxConnects
    /\ \E t \in Transports :
          IF t \in factory.protocols
             THEN /\ sessions' = sessions + 1
                  /\ media' = Joined(media)
                  /\ served' = [served EXCEPT !.log = Append(@, Event("setup", t))]
             ELSE /\ served' = [served EXCEPT !.log = Append(@, Event("refused", t))]
                  /\ UNCHANGED <<sessions, media>>
    /\ pc' = "loop_check"
    /\ UNCHANGED <<exit_code, sigVars, loopVars, objVars, state_requests, busVars,
                   padVars, hwVars, startVars, ingestVars, factory, reported>>

ClientLeaves ==
    /\ Alive
    /\ sessions > 0
    /\ \E i \in 1..Len(media), how \in {"teardown", "disconnect"} :
          /\ media[i].viewers > 0
          /\ media' = Left(media, i, how = "disconnect" /\ ~media[i].stop_on_disconnect)
          /\ served' = [served EXCEPT !.log = Append(@, Event(how, "-"))]
    /\ sessions' = sessions - 1
    /\ UNCHANGED <<mainVars, sigVars, loopVars, objVars, state_requests, busVars,
                   padVars, hwVars, startVars, ingestVars, factory, reported>>

(***************************************************************************)
(* on_pad_added, main.cpp:184-219.                                         *)
(***************************************************************************)
\* Mutant of Matches: only the media kind is tested.
MatchesMediaOnly(caps) ==
    /\ caps.media # "NULL"
    /\ caps.media = "video"

\* main.cpp:203-205  the announced pad carries H.264 video
Matches(caps) ==
    /\ caps.media # "NULL"
    /\ caps.encoding # "NULL"
    /\ caps.media = "video"
    /\ caps.encoding = "H264"

\* Mutant of PadAction: the gst_pad_is_linked guard is missing.
PadActionUnguarded(caps, sink_linked, link_ok) ==
    IF Matches(caps)
       THEN IF link_ok THEN "linked" ELSE "failed"
       ELSE "ignored"

\* main.cpp:203-215  what the callback does with a pad of these caps when
\* depay's sink pad is linked or not and gst_pad_link would return link_ok
PadAction(caps, sink_linked, link_ok) ==
    IF Matches(caps)
       THEN IF ~sink_linked
               THEN IF link_ok THEN "linked" ELSE "failed"
               ELSE "skipped"
       ELSE "ignored"

\* Mutant of on_pad_added: a refused link leaves depay's sink pad marked as
\* taken by the refused pad.
on_pad_added_sticky(p, caps, link_ok) ==
    LET act == PadAction(caps, sink_peer # NoPad, link_ok) IN
    /\ sink_peer' = IF act \in {"linked", "failed"} THEN p ELSE sink_peer
    /\ pad_events' = Append(pad_events, [pad |-> p, caps |-> caps, action |-> act])
    /\ UNCHANGED <<mainVars, loopVars, state_requests, callbacks>>

\* Mutant of on_pad_added: a failed link stops the main loop.
on_pad_added_fatal(p, caps, link_ok) ==
    LET act == PadAction(caps, sink_peer # NoPad, link_ok) IN
    /\ sink_peer' = IF act = "linked" THEN p ELSE sink_peer
    /\ pad_events' = Append(pad_events, [pad |-> p, caps |-> caps, action |-> act])
    /\ is_running' = IF act = "failed" THEN FALSE ELSE is_running
    /\ UNCHANGED <<mainVars, main_loop, state_requests, callbacks>>

\* main.cpp:184-219  links a matching pad to depay's sink; a refused link is
\* reported on stderr and nothing else
on_pad_added(p, caps, link_ok) ==
    LET act == PadAction(caps, sink_peer # NoPad, link_ok) IN
    /\ sink_peer' = IF act = "linked" THEN p ELSE sink_peer
    /\ pad_events' = Append(pad_events, [pad |-> p, caps |-> caps, action |-> act])
    /\ UNCHANGED <<mainVars, loopVars, state_requests, callbacks>>

\* The RTSP source announces a pad (pad-added); a pad keeps its caps over
\* repeated deliveries.
PadAdded ==
    /\ Streaming
    /\ Len(pad_events) < MaxPadEvents
    /\ \E p \in Pads, caps \in Caps, link_ok \in BOOLEAN :
          /\ \A i \in 1..Len(pad_events) :
                pad_events[i].pad = p => pad_events[i].caps = caps
          /\ on_pad_added(p, caps, link_ok)
    /\ UNCHANGED <<sigVars, objVars, busVars, hwVars, startVars, ingestVars, serveVars, reported, sessions>>

(***************************************************************************)
(* The stream.  Once the source is linked, chunks of one second each flow  *)
(* depay -> parse -> ring-buffer -> output.  As queue2 implements it, the  *)
(* ring-buffer element is a queue: it takes a chunk while it is below its  *)
(* limits, makes the writer wait otherwise, and hands its oldest chunk     *)
(* downstream; it drops nothing.  filesink appends what it is handed to    *)
(* /tmp/replay-buffer.h264, the file the factory's launch line reads.      *)
(***************************************************************************)
ChunkBytes == {1000000, 600000000}

ring_buffer_max_size == 1000000000

(***************************************************************************)
(* guint64 values are kept as eight bytes, the least significant first.    *)
(***************************************************************************)
Limbs == 8
Radix == 256

Zero64 == [i \in 1..Limbs |-> 0]

\* (guint64)n for an int n: the two's complement bytes of n, the sign
\* extended over the upper four.
ToU64(n) ==
    [i \in 1..Limbs |->
        CASE i = 1 -> n % Radix
          [] i = 2 -> (n \div Radix) % Radix
          [] i = 3 -> (n \div (Radix * Radix)) % Radix
          [] i = 4 -> (n \div (Radix * Radix * Radix)) % Radix
          [] OTHER -> IF n < 0 THEN Radix - 1 ELSE 0]

\* GST_SECOND, 1000000000 = 0x3B9ACA00
GST_SECOND == <<0, 202, 154, 59, 0, 0, 0, 0>>

\* The sum of the byte products a[i] * b[k + 1 - i] that fall in column k.
RECURSIVE Column(_, _, _, _)
Column(a, b, k, i) ==
    IF i > Limbs THEN 0
    ELSE (IF k + 1 - i \in 1..Limbs THEN a[i] * b[k + 1 - i] ELSE 0)
         + Column(a, b, k, i + 1)

\* The bytes k..n of the product a * b, carry coming in from column k - 1.
RECURSIVE MulFrom(_, _, _, _, _)
MulFrom(a, b, k, carry, n) ==
    IF k > n THEN <<>>
    ELSE LET t == Column(a, b, k, 1) + carry
         IN  <<t % Radix>> \o MulFrom(a, b, k + 1, t \div Radix, n)

\* a * b in guint64: the low eight bytes of the product, that is the
\* product modulo 2^64.
Mul64(a, b) == MulFrom(a, b, 1, 0, Limbs)

\* a < b for two guint64 values.
Less64(a, b) ==
    \E k \in 1..Limbs : a[k] < b[k] /\ \A j \in (k + 1)..Limbs : a[j] = b[j]

\* main.cpp:256  guint64 max_size_time = (guint64)config.buffer_seconds * GST_SECOND;
max_size_time(cfg) == Mul64(ToU64(cfg.buffer_seconds), GST_SECOND)

\* The time queued in the ring-buffer element, in nanoseconds: a chunk is
\* one second of video.
cur_level_time == Mul64(ToU64(Len(queue2)), GST_SECOND)

RECURSIVE Bytes(_)
Bytes(chunks) == IF chunks = <<>> THEN 0 ELSE Head(chunks).bytes + Bytes(Tail(chunks))

Fed == Len(queue2) + Len(file)

\* The ring-buffer element has room for a chunk of the given size.
HasRoom(size) ==
    /\ max_size_time(config) = Zero64 \/ Less64(cur_level_time, max_size_time(config))
    /\ Bytes(queue2) + size <= ring_buffer_max_size

\* The camera's H.264 video pad is announced and linked.
LinkVideoPad ==
    /\ Streaming
    /\ pad_events = <<>>
    /\ on_pad_added(1, [media |-> "video", encoding |-> "H264"], TRUE)
    /\ UNCHANGED <<sigVars, objVars, busVars, hwVars, startVars, ingestVars, serveVars,
                   reported, sessions>>

\* One more second of video reaches the ring-buffer element.
Feed ==
    /\ Streaming
    /\ sink_peer # NoPad
    /\ Fed < MaxFeed
    /\ \E size \in ChunkBytes :
          /\ HasRoom(size)
          /\ queue2' = Append(queue2, [second |-> Fed + 1, bytes |-> size])
    /\ UNCHANGED <<mainVars, sigVars, loopVars, objVars, state_requests, busVars, padVars,
                   hwVars, startVars, build, file, serveVars, reported, sessions>>

\* The ring-buffer element pushes its oldest chunk to filesink.
Drain ==
    /\ Streaming
    /\ queue2 # <<>>
    /\ file' = Append(file, Head(queue2))
    /\ queue2' = Tail(queue2)
    /\ UNCHANGED <<mainVars, sigVars, loopVars, objVars, state_requests, busVars, padVars,
                   hwVars, startVars, build, serveVars, reported, sessions>>

(***************************************************************************)
(* on_pad_added called from several streaming threads.  gst_pad_is_linked  *)
(* (main.cpp:207) and gst_pad_link (main.cpp:208) each take the pads'      *)
(* locks and are atomic; nothing holds a lock across the two calls.        *)
(***************************************************************************)
InFlight == {callbacks[t] : t \in Threads} \ {NoPad}

\* GstPadLinkReturn of gst_pad_link on depay's sink pad: it refuses with
\* GST_PAD_LINK_WAS_LINKED when the sink pad has a peer by now.
gst_pad_link(sink_linked, link_ok) ==
    IF sink_linked THEN "failed"
    ELSE IF link_ok THEN "linked" ELSE "failed"

\* main.cpp:184-207  thread t enters the callback for a pad no other thread
\* is announcing: a pad that does not match is ignored, a matching one is
\* skipped when the sink pad is linked, and otherwise the thread goes on to
\* gst_pad_link.
PadCheck(t) ==
    /\ Streaming
    /\ callbacks[t] = NoPad
    /\ Len(pad_events) + Cardinality(InFlight) < MaxPadEvents
    /\ \E p \in Pads \ InFlight, caps \in Caps :
          /\ \A i \in 1..Len(pad_events) :
                pad_events[i].pad = p => pad_events[i].caps = caps
          /\ IF Matches(caps) /\ sink_peer = NoPad
                THEN /\ callbacks' = [callbacks EXCEPT ![t] = p]
                     /\ UNCHANGED pad_events
                ELSE /\ pad_events' = Append(pad_events,
                            [pad |-> p, caps |-> caps,
                             action |-> PadAction(caps, sink_peer # NoPad, TRUE)])
                     /\ UNCHANGED callbacks
    /\ UNCHANGED <<mainVars, sigVars, loopVars, objVars, state_requests, busVars, sink_peer,
                   hwVars, startVars, ingestVars, serveVars, reported, sessions>>

\* main.cpp:208-215  thread t calls gst_pad_link and reports the outcome.
PadLink(t) ==
    /\ Alive
    /\ callbacks[t] # NoPad
    /\ \E link_ok \in BOOLEAN :
          LET act == gst_pad_link(sink_peer # NoPad, link_ok) IN
          /\ sink_peer' = IF act = "linked" THEN callbacks[t] ELSE sink_peer
          /\ pad_events' = Append(pad_events,
                [pad |-> callbacks[t], caps |-> [media |-> "video", encoding |-> "H264"],
                 action |-> act])
    /\ callbacks' = [callbacks EXCEPT ![t] = NoPad]
    /\ UNCHANGED <<mainVars, sigVars, loopVars, objVars, state_requests, busVars,
                   hwVars, startVars, ingestVars, serveVars, reported, sessions>>

PadChecks == \E t \in Threads : PadCheck(t)
PadLinks  == \E t \in Threads : PadLink(t)

(***************************************************************************)
(* Specifications.                                                         *)
(***************************************************************************)
MainThread ==
    Startup \/ LoopCheck \/ LoopWakeup \/ Dispatch \/ Cleanup

\* The program and its dispatcher, with every message type.
Next ==
    MainThread \/ Signal \/ PostAny

Spec == Init /\ [][Next]_vars

\* main() always takes its next step; the environment (engine, signals,
\* clients) is under no obligation.
FairSpec == Spec /\ WF_vars(MainThread)

\* The buffering scenario: the engine posts only Buffering notifications.
BufNext ==
    Startup \/ LoopCheck \/ LoopWakeup \/ DispatchBuffering \/ Cleanup
    \/ Signal \/ PostLevel

BufSpec == Init /\ [][BufNext]_vars

\* Serving: clients connect and leave; the engine reports only fatal events.
ServeNext ==
    MainThread \/ AcceptClient \/ ClientLeaves \/ Signal \/ PostFatal

ServeSpec == Init /\ [][ServeNext]_vars

\* Dynamic linking: the source announces pads while the pipeline runs.
LinkNext ==
    Startup \/ LoopCheck \/ LoopWakeup \/ Cleanup \/ Signal \/ PadAdded

LinkSpec == Init /\ [][LinkNext]_vars

\* The same with pads announced from several streaming threads at once.
RaceNext ==
    Startup \/ LoopCheck \/ LoopWakeup \/ Cleanup \/ Signal \/ PadChecks \/ PadLinks

RaceSpec == Init /\ [][RaceNext]_vars

\* State tracking: the engine posts StateChanged confirmations of the
\* pipeline and of a child, and Buffering notifications.
StateNext ==
    Startup \/ LoopCheck \/ LoopWakeup \/ DispatchTransition \/ Cleanup
    \/ Signal \/ PostTransition

StateSpec == Init /\ [][StateNext]_vars

\* Codec selection: the program is started on every registry content, with
\* and without --no-hw.
SelectNext ==
    MainThread \/ Signal \/ PostEvent

SelectSpec == SelectInit /\ [][SelectNext]_vars

\* Command lines: the program is started with every command line.
ArgsSpec == ArgsInit /\ [][SelectNext]_vars

\* Plugins: the program is started on every set of installed plugins.
PluginSpec == PluginInit /\ [][SelectNext]_vars

\* The stream: the camera's pad is linked and video flows into the ring
\* buffer and on to the file.
FlowNext ==
    Startup \/ LoopCheck \/ LoopWakeup \/ Cleanup \/ Signal
    \/ LinkVideoPad \/ Feed \/ Drain

FlowSpec == FlowInit /\ [][FlowNext]_vars

\* The same stream with the buffer lengths of BufferValues.
BufferSpec == BufferInit /\ [][FlowNext]_vars


(***************************************************************************)
(* Properties.                                                             *)
(***************************************************************************)
HandledOf(t) == {i \in 1..Len(handled) : handled[i].type = t}

ErrorHandled == HandledOf("ERROR") # {}
EosHandled   == HandledOf("EOS") # {}
FatalHandled == ErrorHandled \/ EosHandled

\* The Buffering notifications handled so far, in order.
IsBuffering(m) == m.type = "BUFFERING"
BufferingHandled == SelectSeq(handled, IsBuffering)

\* The shutdown procedure has run to its end: the loop is stopped, Null was
\* the last state asked of the pipeline, and main() has released the
\* pipeline, the server and the loop.
ShutDown ==
    /\ ~is_running
    /\ state_requests # <<>>
    /\ Last(state_requests) = "NULL"
    /\ \A o \in Objects : unrefs[o] = 1

\* C1: whenever the dispatcher has handled an Error notification, the
\* shutdown procedure follows and runs to its end (loop stopped, pipeline
\* asked for Null, resources released); it is main() that completes it, on
\* its way to its return; and from the Error on the only state request made
\* on the pipeline is that Null: no retry, no restart.
C1_ErrorLeadsToShutdown ==
    /\ ErrorHandled ~> ShutDown
    /\ [][(~ShutDown /\ ShutDown') => pc' = "return"]_vars
    /\ [][ErrorHandled => \/ state_requests' = state_requests
                          \/ state_requests' = Append(state_requests, "NULL")]_vars

C1_Witness ==
    /\ ErrorHandled
    /\ ShutDown
    /\ pc = "exited"

\* C2: the i-th Buffering notification handled made the (i+1)-th state
\* request (the first is main()'s Playing), and that request is Paused when
\* its percent is below 100 and Playing when it is 100.
C2_BufferingRequests ==
    LET b == BufferingHandled IN
    /\ Len(b) > 0 => Len(state_requests) >= Len(b) + 1
    /\ \A i \in 1..Len(b) :
          /\ b[i].percent < 100 => state_requests[i + 1] = "PAUSED"
          /\ b[i].percent = 100 => state_requests[i + 1] = "PLAYING"

C2_Witness ==
    /\ \E i \in HandledOf("BUFFERING") : handled[i].percent = 99
    /\ \E i \in HandledOf("BUFFERING") : handled[i].percent = 100

\* C9: once an Error or EndOfStream notification has been handled, it is
\* the last notification the dispatcher handles, and the state requests made
\* on the pipeline after it are at most one, for Null: a Buffering
\* notification queued behind it causes no request.
C9_TerminalAfterFatal ==
    \A i \in HandledOf("ERROR") \cup HandledOf("EOS") :
        /\ i = Len(handled)
        /\ LET made == 1 + Len(BufferingHandled) IN
           /\ Len(state_requests) >= made
           /\ SubSeq(state_requests, made + 1, Len(state_requests))
                 \in {<<>>, <<"NULL">>}

C9_Witness ==
    /\ FatalHandled
    /\ bus # <<>>
    /\ Head(bus).type = "BUFFERING"
    /\ pc = "exited"

\* C10: whenever the dispatcher has handled an EndOfStream notification,
\* the loop is stopped and main() goes on to ask the pipeline for Null and
\* to release it, the server and the loop.
C10_EosLeadsToShutdown == EosHandled ~> ShutDown

C10_Witness ==
    /\ EosHandled
    /\ ShutDown
    /\ pc = "exited"


\* Number of places where a sequence of requested states changes value.
Transitions(r) == Cardinality({i \in 2..Len(r) : r[i] # r[i - 1]})

\* The percentages of the Buffering notifications handled so far.
Levels == [i \in 1..Len(BufferingHandled) |-> BufferingHandled[i].percent]

\* The state requests made up to the last Buffering notification handled:
\* main()'s Playing followed by one request per notification.
LevelRequests == SubSeq(state_requests, 1, Len(BufferingHandled) + 1)

\* C3: the requested state changes at a Buffering notification exactly when
\* the level crosses the 100% threshold with respect to the notification
\* before it (the first one with respect to the initial Playing), so a
\* repeated percentage leaves the requested state as it is; and the sequence
\* [100, 100, 60, 60, 100] makes the requested state change exactly twice,
\* to Paused at the first 60 and to Playing at the last 100.
C3_LevelTriggered ==
    LET n == Len(BufferingHandled)
        below(i) == IF i = 0 THEN FALSE ELSE Levels[i] < 100
    IN  /\ n > 0 => Len(state_requests) >= n + 1
        /\ \A i \in 1..n :
              (state_requests[i + 1] # state_requests[i]) <=> (below(i) # below(i - 1))
        /\ \A i \in 2..n :
              Levels[i] = Levels[i - 1] => state_requests[i + 1] = state_requests[i]
        /\ Levels = <<100, 100, 60, 60, 100>> =>
              /\ Transitions(LevelRequests) = 2
              /\ LevelRequests = <<"PLAYING", "PLAYING", "PLAYING", "PAUSED", "PAUSED", "PLAYING">>

C3_Witness ==
    /\ Levels = <<100, 100, 60, 60, 100>>
    /\ Transitions(LevelRequests) = 2

\* What the pad-added deliveries so far did.
Events == 1..Len(pad_events)
IsH264Video(caps) == caps.media = "video" /\ caps.encoding = "H264"
LinkedBefore(i) == \E j \in 1..(i - 1) : pad_events[j].action = "linked"
EverLinked(p) == \E i \in Events : pad_events[i].pad = p /\ pad_events[i].action = "linked"

\* C4 as claimed: an announced pad is linked if and only if it announces
\* H.264 video.
C4_LinkedIffH264Video ==
    \A i \in Events :
        EverLinked(pad_events[i].pad) <=> IsH264Video(pad_events[i].caps)

\* C4, amended: a pad is linked only if it announces H.264 video, and a
\* delivery of such a pad links it exactly when depay's sink pad is still
\* unlinked and gst_pad_link succeeds; a pad of any other kind or encoding,
\* or with the fields missing, is ignored; and the pad on depay's sink, if
\* any, announces H.264 video.
C4_LinkedOnlyH264Video ==
    /\ \A i \in Events :
          LET e == pad_events[i] IN
          /\ e.action = "linked" => IsH264Video(e.caps)
          /\ ~IsH264Video(e.caps) => e.action = "ignored"
          /\ (IsH264Video(e.caps) /\ ~LinkedBefore(i)) => e.action \in {"linked", "failed"}
          /\ (IsH264Video(e.caps) /\ LinkedBefore(i)) => e.action = "skipped"
    /\ sink_peer # NoPad =>
          \E i \in Events : /\ pad_events[i].pad = sink_peer
                            /\ pad_events[i].action = "linked"
                            /\ IsH264Video(pad_events[i].caps)
    /\ sink_peer = NoPad => \A i \in Events : pad_events[i].action # "linked"

C4_Witness ==
    /\ \E i \in Events : pad_events[i].caps.media = "audio" /\ pad_events[i].action = "ignored"
    /\ \E i \in Events : IsH264Video(pad_events[i].caps) /\ pad_events[i].action = "linked"
    /\ \E i \in Events : IsH264Video(pad_events[i].caps) /\ pad_events[i].action # "linked"

\* C5: when a pad-added delivery has linked a pad, every later delivery
\* (of that pad or another) links nothing and leaves that pad on depay's
\* sink: there is never more than one link.
C5_LinkIdempotent ==
    /\ Cardinality({i \in Events : pad_events[i].action = "linked"}) <= 1
    /\ \A i \in Events :
          pad_events[i].action = "linked" =>
             /\ sink_peer = pad_events[i].pad
             /\ \A j \in (i + 1)..Len(pad_events) :
                   pad_events[j].pad = pad_events[i].pad => pad_events[j].action = "skipped"

C5_Witness ==
    \E i \in Events : \E j \in Events :
        /\ i < j
        /\ pad_events[i].pad = pad_events[j].pad
        /\ pad_events[i].action = "linked"
        /\ pad_events[j].action = "skipped"
        /\ sink_peer = pad_events[i].pad

\* C6: whatever triggered the shutdown and however often, no object is ever
\* released twice, and once main() is past its cleanup every owned object
\* (pipeline, RTSP server, main loop) has been released exactly once, Null
\* was the last state asked of the pipeline and the loop is stopped.
PastCleanup ==
    \/ pc = "return"
    \/ pc = "exited" /\ exit_code = 0
    \/ pc = "crashed"

C6_ShutdownIdempotent ==
    /\ \A o \in Objects : unrefs[o] <= 1
    /\ PastCleanup =>
          /\ \A o \in Objects : unrefs[o] = 1
          /\ pipeline = "freed" /\ rtsp_server = "freed" /\ main_loop = "freed"
          /\ Last(state_requests) = "NULL"
          /\ Cardinality({i \in 1..Len(state_requests) : state_requests[i] = "NULL"}) = 1
          /\ ~is_running

C6_Witness ==
    /\ pc = "exited"
    /\ exit_code = 0
    /\ signals >= 2
    /\ ErrorHandled

\* C7: a signal delivered once the handlers are installed shuts the program
\* down.  Stated on the state in which main() waits in the loop with nothing
\* to dispatch: if a signal has been delivered by then, the loop has been
\* told to stop (otherwise main() waits on with the signal forgotten).
C7_SignalStopsLoop ==
    (shutdown_requested = 1 /\ pc = "loop_iterate" /\ bus = <<>>) => ~is_running

\* C8: the ingest pipeline is not torn down (asked for Null, released)
\* while the RTSP server still admits clients or a client session is
\* attached.
C8_ServerStoppedFirst ==
    (pipeline = "freed" \/ (state_requests # <<>> /\ Last(state_requests) = "NULL")) =>
        /\ rtsp_server # "live"
        /\ sessions = 0

(***************************************************************************)
(* Warnings.                                                               *)
(***************************************************************************)
\* The dispatch of the message at the head of the bus, when it has type t.
Handling(t) ==
    /\ pc = "loop_iterate"
    /\ bus # <<>>
    /\ Head(bus).type = t
    /\ handled' = Append(handled, Head(bus))

\* C11: handling a Warning only logs it: the reported lifecycle state stays
\* as it was, nothing is requested of the pipeline, and the loop keeps its
\* running flag and goes on to its next iteration check.
C11_WarningOnlyLogs ==
    [][Handling("WARNING") =>
          /\ reported' = reported
          /\ state_requests' = state_requests
          /\ is_running' = is_running
          /\ pc' = "loop_check"
          /\ pipeline' = pipeline
          /\ exit_code' = exit_code]_vars

\* A warning was handled and the loop went on to handle a later message.
C11_Witness ==
    \E i \in 1..Len(handled) :
        /\ handled[i].type = "WARNING"
        /\ i < Len(handled)
        /\ is_running
        /\ Last(state_requests) = "PLAYING"

(***************************************************************************)
(* State tracking.                                                         *)
(***************************************************************************)
IsTopLevelChange(m) == m.type = "STATE_CHANGED" /\ m.src = PipelineName
IsChildChange(m)    == m.type = "STATE_CHANGED" /\ m.src # PipelineName

\* The StateChanged messages of the top-level pipeline handled so far.
TopLevelChanges == SelectSeq(handled, IsTopLevelChange)

\* C12: the lifecycle state the program reports is the new state of the most
\* recent StateChanged handled that came from the top-level pipeline (none
\* before the first one); a child's StateChanged leaves it as it was.
C12_ReportedIsLastTopLevel ==
    reported = IF TopLevelChanges = <<>> THEN "-"
               ELSE Last(TopLevelChanges).new_state

\* The pipeline confirmed Paused, then Playing, and a child's transition to
\* Paused was handled last.
C12_Witness ==
    /\ Len(TopLevelChanges) = 2
    /\ TopLevelChanges[1].new_state = "PAUSED"
    /\ TopLevelChanges[2].new_state = "PLAYING"
    /\ IsChildChange(Last(handled))
    /\ Last(handled).new_state = "PAUSED"
    /\ reported = "PLAYING"

\* C13: the state asked of the pipeline stays the one of the newest
\* Buffering notification handled, until shutdown asks for Null, and the
\* handling of a StateChanged confirmation, stale or not, asks for nothing.
C13_LatestRequestWins ==
    /\ [](BufferingHandled # <<>> /\ Last(state_requests) # "NULL"
            => Last(state_requests) = BufferingTarget(Last(BufferingHandled).percent))
    /\ [][Handling("STATE_CHANGED") => state_requests' = state_requests]_vars

\* Buffering below 100 asked for Paused, Buffering at 100 asked for Playing,
\* and the pipeline's confirmation of Paused was handled after both.
C13_Witness ==
    /\ Len(handled) = 3
    /\ IsBuffering(handled[1]) /\ handled[1].percent < 100
    /\ IsBuffering(handled[2]) /\ handled[2].percent = 100
    /\ IsTopLevelChange(handled[3]) /\ handled[3].new_state = "PAUSED"
    /\ state_requests = <<"PLAYING", "PAUSED", "PLAYING">>
    /\ reported = "PAUSED"

(***************************************************************************)
(* Link failures.                                                          *)
(***************************************************************************)
\* A pad-added delivery whose link attempt was refused.
LinkRefused ==
    /\ Len(pad_events') = Len(pad_events) + 1
    /\ pad_events'[Len(pad_events')].action = "failed"

\* C14: a refused link for a matching pad is only reported: the main loop
\* keeps its running flag, main() stays where it was, nothing is asked of
\* the pipeline, the process does not exit, and depay's sink pad is left
\* unconnected.
C14_LinkFailureNotFatal ==
    [][LinkRefused =>
          /\ is_running' = is_running
          /\ main_loop' = main_loop
          /\ pc' = pc
          /\ exit_code' = exit_code
          /\ state_requests' = state_requests
          /\ sink_peer = NoPad
          /\ sink_peer' = NoPad]_vars

\* A link was refused while the loop ran, the loop still runs, and a later
\* delivery linked a pad.
C14_Witness ==
    \E i \in Events : \E j \in Events :
        /\ i < j
        /\ pad_events[i].action = "failed"
        /\ pad_events[j].action = "linked"
        /\ is_running
        /\ pc \in {"loop_check", "loop_iterate"}

(***************************************************************************)
(* Codec selection.                                                        *)
(***************************************************************************)
SoftwarePair == [decoder |-> "avdec_h264", encoder |-> "x264enc"]

\* The codec pair the element selectors return for the selected backend.
SelectedPair ==
    [decoder |-> get_decoder_element(hw_type), encoder |-> get_encoder_element(hw_type)]

Selected == hw_type # "unset"
Launched == launch # NoLaunch

HwDecoders == {"nvh264dec", "vaapih264dec", "msdkh264dec"}
HwEncoders == {"nvh264enc", "vaapih264enc", "msdkh264enc"}

\* C15: on a machine with no NVIDIA, VAAPI or MSDK decoder registered the
\* selected pair is avdec_h264 / x264enc, and the launch pipeline of the
\* replay server names that pair.
C15_SoftwareFallback ==
    registry \cap HwDecoders = {} =>
        /\ Selected => hw_type = "HW_ACCEL_NONE" /\ SelectedPair = SoftwarePair
        /\ Launched => launch = SoftwarePair

\* Hardware acceleration enabled, no hardware decoder but a hardware encoder
\* registered, and the server's launch pipeline built.
C15_Witness ==
    /\ use_hardware_accel
    /\ registry \cap HwDecoders = {}
    /\ registry # {}
    /\ SelectedPair = SoftwarePair
    /\ launch = SoftwarePair

(***************************************************************************)
(* The documented priority order and codec pairs (README.md:425-430).  A   *)
(* backend is present when its decoder is registered; software always is.  *)
(***************************************************************************)
Priority == <<"HW_ACCEL_NVIDIA", "HW_ACCEL_VAAPI", "HW_ACCEL_MSDK", "HW_ACCEL_NONE">>

Rank(b) == CHOOSE i \in 1..Len(Priority) : Priority[i] = b

PairOf(b) ==
    CASE b = "HW_ACCEL_NVIDIA" -> [decoder |-> "nvh264dec", encoder |-> "nvh264enc"]
      [] b = "HW_ACCEL_VAAPI"  -> [decoder |-> "vaapih264dec", encoder |-> "vaapih264enc"]
      [] b = "HW_ACCEL_MSDK"   -> [decoder |-> "msdkh264dec", encoder |-> "msdkh264enc"]
      [] b = "HW_ACCEL_NONE"   -> SoftwarePair

Present(b) == b = "HW_ACCEL_NONE" \/ PairOf(b).decoder \in registry

Preferred(b) == Present(b) /\ \A z \in HWAccelType : Present(z) => Rank(b) <= Rank(z)

\* C16 as claimed: whenever backends X and Y are both present and X has the
\* higher priority, the selected pair is X's.
C16_PairwisePriority ==
    use_hardware_accel /\ Selected =>
        \A x \in HWAccelType, y \in HWAccelType :
            Present(x) /\ Present(y) /\ Rank(x) < Rank(y) =>
                SelectedPair = PairOf(x) /\ SelectedPair # PairOf(y)

\* C16, amended: with hardware acceleration enabled the selected pair is the
\* pair of the present backend of highest priority, and never the pair of a
\* present backend of lower priority.
C16_HighestPriorityWins ==
    use_hardware_accel /\ Selected =>
        \A x \in HWAccelType :
            Preferred(x) =>
                /\ SelectedPair = PairOf(x)
                /\ \A y \in HWAccelType :
                      Present(y) /\ Rank(x) < Rank(y) => SelectedPair # PairOf(y)

\* VAAPI and MSDK are present, NVIDIA is not, and VAAPI's pair is selected.
C16_Witness ==
    /\ use_hardware_accel
    /\ Present("HW_ACCEL_VAAPI") /\ Present("HW_ACCEL_MSDK")
    /\ ~Present("HW_ACCEL_NVIDIA")
    /\ SelectedPair = PairOf("HW_ACCEL_VAAPI")

\* C17: with --no-hw the selected decoder and encoder are avdec_h264 and
\* x264enc whatever the registry holds, and so are those of the launch
\* pipeline.
C17_NoHwForcesSoftware ==
    ~use_hardware_accel =>
        /\ Selected => SelectedPair = SoftwarePair
        /\ Launched => launch = SoftwarePair

\* --no-hw on a machine with every hardware codec registered.
C17_Witness ==
    /\ ~use_hardware_accel
    /\ registry = Features
    /\ SelectedPair = SoftwarePair
    /\ launch = SoftwarePair

\* C18: a hardware encoder is selected, and named in the launch pipeline,
\* only if the registry holds it.
C18_EncoderOnlyIfRegistered ==
    /\ Selected => SelectedPair.encoder \in registry \cup {SoftwarePair.encoder}
    /\ Launched => launch.encoder \in registry \cup {SoftwarePair.encoder}

\* C19: the decoder and the encoder of the factory's launch pipeline are
\* those get_decoder_element and get_encoder_element return for the backend
\* handed to the server.
C19_TemplateUsesSelectedPair ==
    Launched =>
        launch = [decoder |-> get_decoder_element(server_hw),
                  encoder |-> get_encoder_element(server_hw)]

\* C20: the backend is assigned once, by the detection step of startup and
\* before the ingest pipeline or the server exists; it never changes after
\* that, and both builders receive it.
C20_SelectedOnce ==
    /\ [][hw_type' # hw_type => hw_type = "unset" /\ pc = "detect_hardware"]_vars
    /\ [](pipeline # "null" \/ rtsp_server # "null" \/ pipeline_hw # "-" \/ server_hw # "-"
            => Selected)
    /\ [](pipeline_hw # "-" => pipeline_hw = hw_type)
    /\ [](server_hw # "-" => server_hw = hw_type /\ server_hw = pipeline_hw)

\* NVIDIA was selected, both builders received it, and an Error or a
\* Buffering notification has been handled since.
C20_Witness ==
    /\ hw_type = "HW_ACCEL_NVIDIA"
    /\ pipeline_hw = "HW_ACCEL_NVIDIA"
    /\ server_hw = "HW_ACCEL_NVIDIA"
    /\ handled # <<>>
    /\ Last(handled).type \in {"ERROR", "BUFFERING"}

(***************************************************************************)
(* Replay sessions.                                                        *)
(***************************************************************************)
Log == served.log
LogKinds == [i \in 1..Len(Log) |-> Log[i].kind]

\* The step in which a session event of kind k is logged.
Logged(k) ==
    /\ Len(served'.log) = Len(Log) + 1
    /\ served'.log[Len(served'.log)].kind = k

\* C21: the mount point never has more than one playback graph, and while
\* clients are connected all of them are viewers of that one graph.
C21_OneSharedGraph ==
    /\ Len(media) <= 1
    /\ sessions > 0 => Len(media) = 1 /\ media[1].viewers = sessions

\* Two clients are connected at once.
C21_Witness ==
    /\ sessions = 2
    /\ Len(media) = 1
    /\ media[1].viewers = 2

C29_TcpOnly ==
    /\ rtsp_server # "null" => factory.enable_rtcp
    /\ \A i \in 1..Len(Log) : Log[i].kind = "setup" => Log[i].transport = "TCP"

\* A set-up over UDP was refused and one over TCP went through.
C29_Witness ==
    /\ \E i \in 1..Len(Log) : Log[i] = Event("refused", "UDP")
    /\ \E i \in 1..Len(Log) : Log[i] = Event("setup", "TCP")
    /\ factory.enable_rtcp

(***************************************************************************)
(* Retention.  The store the replay server reads is the file; what the     *)
(* program retains of the stream is the file and what the ring-buffer      *)
(* element still holds.                                                    *)
(***************************************************************************)
Retained == file \o queue2

\* C23: the store re-served to clients holds no more than the most recent
\* buffer_seconds seconds of the stream.
C23_RetainsLastSeconds ==
    config.buffer_seconds > 0 => Len(file) <= config.buffer_seconds

\* C24: while the time bound has not been reached the retained data stays
\* within the byte bound, the oldest being evicted once it is reached.
C24_EvictsAtByteBound ==
    Fed < config.buffer_seconds => Bytes(Retained) <= ring_buffer_max_size

(***************************************************************************)
(* Construction of the ingest pipeline.                                    *)
(***************************************************************************)
\* create_input_pipeline has been called.
BuildAttempted == pipeline_hw # "-"

\* The chain depay -> parse -> ring-buffer -> output.
Chain == {<<"depay", "parse">>, <<"parse", "ring-buffer">>, <<"ring-buffer", "output">>}

BuildComplete == build.made = Elements /\ Chain \subseteq build.links

\* C25: when an element cannot be made or the static link fails, nothing
\* of the build stays alive: every element made and the pipeline object are
\* released, main() holds no pipeline, nothing was asked of it, and the
\* process has exited with code 1 without a second attempt.
C25_ConstructionFailsFast ==
    BuildAttempted /\ ~BuildComplete =>
        /\ build.object # "live"
        /\ build.released = build.made
        /\ pipeline = "null"
        /\ state_requests = <<>>
        /\ pc = "exited"
        /\ exit_code = 1

\* Some elements were made and some could not be; those made were released
\* with the pipeline object.
C25_Witness ==
    /\ build.object = "freed"
    /\ build.made # {}
    /\ build.made # Elements
    /\ build.released = build.made
    /\ exit_code = 1

\* C26: a pipeline that was built has the chain linked, and until a pad
\* announcement has been linked the source is linked to nothing.
C26_SourceUnlinkedAtBuild ==
    build.object = "live" =>
        /\ Chain \subseteq build.links
        /\ (\A i \in Events : pad_events[i].action # "linked") =>
              /\ \A e \in Elements : <<"source", e>> \notin build.links
              /\ sink_peer = NoPad

\* The pipeline runs, pads that do not match and a refused link have been
\* seen, and the source is still unlinked.
C26_Witness ==
    /\ build.object = "live"
    /\ is_running
    /\ \E i \in Events : pad_events[i].action = "ignored"
    /\ \E i \in Events : pad_events[i].action = "failed"
    /\ sink_peer = NoPad

(***************************************************************************)
(* Startup failures and exit codes.                                        *)
(***************************************************************************)
\* The command line is one parse_arguments does not accept.
ConfigFailure == parse_arguments(argv, DefaultConfig).result # "ok"

\* main() went through its cleanup.
CleanedUp == \A o \in Objects : unrefs[o] = 1

\* C27: a process started with a command line that is not accepted ends
\* with exit code 1, and so does one whose pipeline or server could not be
\* constructed; one that went through its cleanup ends with exit code 0.
C27_ExitCodes ==
    /\ ConfigFailure /\ pc # "parse_arguments" => pc = "exited" /\ exit_code = 1
    /\ pc = "exited" /\ (pipeline = "null" \/ rtsp_server = "null") => exit_code = 1
    /\ pc = "exited" /\ CleanedUp => exit_code = 0

\* C28: with a required plugin missing, main() gets no further than the
\* plugin check: it reports every missing plugin and exits with code 1, and
\* no pipeline is built, no server created and no state asked for.
C28_MissingPluginStops ==
    plugins # RequiredPlugins =>
        /\ pc \in {"parse_arguments", "check_plugins", "exited"}
        /\ pc = "exited" => exit_code = 1 /\ missing = RequiredPlugins \ plugins
        /\ ~BuildAttempted
        /\ pipeline = "null"
        /\ rtsp_server = "null"
        /\ state_requests = <<>>

\* Two plugins are missing, both were reported, and the process has exited.
C28_Witness ==
    /\ Cardinality(RequiredPlugins \ plugins) = 2
    /\ missing = RequiredPlugins \ plugins
    /\ pc = "exited"
    /\ exit_code = 1

\* C30: the NVIDIA codec elements of the launch pipeline run on the device
\* given with --gpu.
C30_GpuIdApplied ==
    Launched /\ server_hw = "HW_ACCEL_NVIDIA" => factory.device = config.gpu_id

(***************************************************************************)
(* Signals and the released main loop.                                     *)
(***************************************************************************)
\* The delivery of a signal in which signal_handler calls g_main_loop_quit:
\* the global pointer is not null.
SignalQuits == signals' = signals + 1 /\ main_loop # "null"

\* C31: whenever signal_handler calls g_main_loop_quit, the loop it names
\* is a live object.
C31_QuitOnlyOnLiveLoop == [][SignalQuits => main_loop = "live"]_vars

(***************************************************************************)
(* Exit codes after the loop has started.                                  *)
(***************************************************************************)
\* The process has ended, by returning from main() or by a fault.
Ended == pc \in {"exited", "crashed", "aborted"}

\* g_main_loop_run was entered.
LoopStarted == main_loop # "null"

\* C34: a process that ended after its main loop had started ended with
\* exit code 0, and exit code 1 is seen only when the loop never started.
C34_ZeroAfterLoopStarted ==
    /\ Ended /\ LoopStarted => exit_code = 0
    /\ exit_code = 1 => ~LoopStarted

(***************************************************************************)
(* Failures between the build of the pipeline and the main loop.           *)
(***************************************************************************)
\* main() returned with the pipeline built and no main loop created: the
\* server could not be created or attached, or Playing was refused.
FailedAfterBuild == pc = "exited" /\ build.object = "live" /\ ~LoopStarted

\* C36: such a process released the pipeline, and the server if there was
\* one, each once; it never had a running loop, handled no notification,
\* and exited with code 1.
C36_LateStartupFailure ==
    FailedAfterBuild =>
        /\ pipeline = "freed" /\ unrefs["pipeline"] = 1
        /\ rtsp_server \in {"null", "freed"}
        /\ unrefs["rtsp_server"] = (IF rtsp_server = "null" THEN 0 ELSE 1)
        /\ unrefs["main_loop"] = 0
        /\ ~is_running
        /\ handled = <<>>
        /\ exit_code = 1

\* The server was attached and the Playing request failed.
C36_Witness ==
    /\ FailedAfterBuild
    /\ attached
    /\ state_requests = <<"PLAYING">>
    /\ rtsp_server = "freed"
    /\ exit_code = 1

(***************************************************************************)
(* A refused link is not remembered.                                       *)
(***************************************************************************)
Attempted(i) == pad_events[i].action \in {"linked", "failed"}
FailedBefore(i) == \E j \in 1..(i - 1) : pad_events[j].action = "failed"

\* C35: a refused link leaves depay's sink pad unlinked and is not
\* remembered: as long as no link has succeeded the sink pad has no peer,
\* every later H.264 video pad is attempted again whatever failed before
\* it, and a pad is skipped only after a successful link.
C35_FailureNotSticky ==
    /\ (\A i \in Events : pad_events[i].action # "linked") => sink_peer = NoPad
    /\ \A i \in Events :
          /\ IsH264Video(pad_events[i].caps) /\ ~LinkedBefore(i) => Attempted(i)
          /\ pad_events[i].action = "skipped" => LinkedBefore(i)

\* The same pad was refused and, announced again, linked.
C35_Witness ==
    \E i \in Events :
        /\ FailedBefore(i)
        /\ \E j \in 1..(i - 1) : /\ pad_events[j].action = "failed"
                                 /\ pad_events[j].pad = pad_events[i].pad
        /\ pad_events[i].action = "linked"
        /\ sink_peer = pad_events[i].pad

(***************************************************************************)
(* Clients are admitted by the main loop only.                             *)
(***************************************************************************)
PlayingRequestedFirst == state_requests # <<>> /\ state_requests[1] = "PLAYING"

\* C37: a client session is admitted only in an iteration of the main loop,
\* hence after the pipeline was built and its first state request, Playing,
\* was made and did not fail.
C37_AdmittedAfterPlaying ==
    [][Logged("setup") =>
          /\ pc = "loop_iterate"
          /\ main_loop = "live"
          /\ build.object = "live" /\ pipeline = "live"
          /\ PlayingRequestedFirst]_vars

\* A session was admitted, and Playing had been requested of the pipeline.
C37_Witness ==
    /\ sessions > 0
    /\ \E i \in 1..Len(Log) : Log[i].kind = "setup"
    /\ PlayingRequestedFirst
    /\ build.object = "live"

(***************************************************************************)
(* When the dispatcher runs, and what it leaves alone.                     *)
(***************************************************************************)
CleanupBegun == \E i \in 1..Len(state_requests) : state_requests[i] = "NULL"

\* C32: a notification is handled only inside an iteration of the main
\* loop: the loop object exists, the pipeline is not released, and cleanup
\* has not asked the pipeline for Null.
C32_HandledOnlyInsideLoop ==
    [][handled' # handled =>
          /\ pc = "loop_iterate"
          /\ main_loop = "live"
          /\ pipeline = "live"
          /\ ~CleanupBegun]_vars

\* Cleanup has begun with a notification still on the bus, after another
\* one was handled inside the loop.
C32_Witness ==
    /\ CleanupBegun
    /\ bus # <<>>
    /\ handled # <<>>

\* Notifications the dispatcher only logs or drops.
Quiet(m) ==
    \/ m.type = "ELEMENT"
    \/ IsChildChange(m)
    \/ m.type \notin {"ERROR", "WARNING", "EOS", "STATE_CHANGED", "BUFFERING", "ELEMENT"}

\* C40: handling an Element notification, a StateChanged of a child or a
\* notification of an unrecognised type changes neither the state requested
\* of the pipeline nor the loop's running flag, and after every
\* notification handled, Error and EndOfStream included, the bus watch is
\* still installed.
C40_QuietAndWatchKept ==
    [][handled' # handled =>
          /\ watch'
          /\ Quiet(Head(bus)) => UNCHANGED <<state_requests, is_running>>]_vars

\* An Element notification and one of an unrecognised type were handled,
\* then the one that stopped the loop, and the watch is still installed.
C40_Witness ==
    /\ watch
    /\ \E i \in 1..Len(handled) : handled[i].type = "ELEMENT"
    /\ \E i \in 1..Len(handled) : handled[i].type = "STREAM_START"
    /\ Last(handled).type \in {"ERROR", "EOS"}
    /\ ~is_running

(***************************************************************************)
(* Command lines that are not accepted.                                    *)
(***************************************************************************)
\* The token reads as a decimal number: an optional sign, then digits only.
IsNumber(tok) ==
    LET cs    == Chars(tok)
        first == IF cs # <<>> /\ cs[1] \in {"-", "+"} THEN 2 ELSE 1
    IN  /\ first <= Len(cs)
        /\ \A k \in first..Len(cs) : cs[k] \in DOMAIN DigitOf

\* From args[i] on every argument is a recognised option, followed by its
\* value if it takes one, a number where a number is expected; url tells
\* whether the input URL was supplied.
RECURSIVE WellFormedFrom(_, _, _)
WellFormedFrom(args, i, url) ==
    IF i > Len(args) THEN url
    ELSE IF args[i] \in {"-i", "--input", "-m", "--mount"} /\ i < Len(args)
       THEN WellFormedFrom(args, i + 2, url \/ args[i] \in {"-i", "--input"})
    ELSE IF args[i] \in {"-b", "--buffer", "-p", "--port", "--gpu"} /\ i < Len(args)
       THEN IsNumber(args[i + 1]) /\ WellFormedFrom(args, i + 2, url)
    ELSE IF args[i] = "--no-hw"
       THEN WellFormedFrom(args, i + 1, url)
    ELSE FALSE

WellFormed(args) == WellFormedFrom(args, 1, FALSE)

\* C39 as claimed: a command line that lacks the URL, or holds an unknown
\* argument, an option without its value, a value that is not a number
\* where one is expected, or -h, ends the process with exit code 1 before
\* any plugin is looked up, any capability probed or any graph built.
C39_RejectedExitsOne ==
    ~WellFormed(argv) /\ pc # "parse_arguments" =>
        /\ pc = "exited"
        /\ exit_code = 1
        /\ missing = {}
        /\ hw_type = "unset"
        /\ ~BuildAttempted
        /\ pipeline = "null"

(***************************************************************************)
(* The ring buffer's time bound.                                           *)
(***************************************************************************)
\* The guint64 u is the number n * 10^9: n is not negative (a negative
\* product is no guint64 value) and the sixteen bytes of the full product
\* are those of u, with nothing above them.
IsNanosecondsOf(u, n) ==
    /\ n >= 0
    /\ MulFrom(ToU64(n), GST_SECOND, 1, 0, 2 * Limbs) = u \o Zero64

\* C38 as claimed: for every buffer length the command line was accepted
\* with, the time bound set on the ring-buffer element is buffer_seconds
\* times 10^9 nanoseconds exactly, and a positive duration.
C38_BoundExactAndPositive ==
    build.object = "live" =>
        /\ IsNanosecondsOf(max_size_time(config), config.buffer_seconds)
        /\ max_size_time(config) # Zero64

(***************************************************************************)
(* Several H.264 video pads.                                               *)
(***************************************************************************)
\* C33 as claimed: at most one pad is ever linked, and once one is linked
\* every H.264 video pad whose callback ends after that is left unlinked
\* without an error, whatever the interleaving of the callbacks.
C33_OnlyFirstLinked ==
    /\ Cardinality({i \in Events : pad_events[i].action = "linked"}) <= 1
    /\ \A i \in Events :
          IsH264Video(pad_events[i].caps) /\ LinkedBefore(i) =>
              pad_events[i].action = "skipped"

====
